---- MODULE Spec2Model ----
(***************************************************************************)
(* Model of lifelines/estimation.py: the Nelson-Aalen and Kaplan-Meier     *)
(* fitters built on _additive_estimate, the Aalen additive regression      *)
(* recursion and the quantile lookup qth_survival_times.                   *)
(*                                                                         *)
(* Numbers are exact extended rationals <<n, d>> (d > 0 in lowest terms;   *)
(* <<1,0>> is +inf, <<-1,0>> is -inf, <<0,0>> is NaN), so that the model   *)
(* computes what the floating point code computes up to rounding.  A value *)
(* on the log scale (the Kaplan-Meier accumulator) is the record           *)
(* [ln |-> r], standing for ln(r); ln(0) is -inf.                          *)
(***************************************************************************)
EXTENDS Integers, Sequences, FiniteSets

\* ------------------------------------------------------------- bounds
MaxN == 4
MaxT == 3
MaxPts == 3
MaxSubjects == 3
MaxTime == 2
MaxLen == 3
QDen == 4

\* ------------------------------------------------- extended rationals
Abs(x) == IF x < 0 THEN -x ELSE x

Sign(x) == IF x < 0 THEN -1 ELSE IF x > 0 THEN 1 ELSE 0

RECURSIVE GCD(_, _)
GCD(a, b) == IF b = 0 THEN a ELSE GCD(b, a % b)

Rat(n, d) ==
    IF d = 0 THEN <<Sign(n), 0>>
    ELSE LET g == GCD(Abs(n), Abs(d))
             s == Sign(d)
         IN  <<(s * n) \div g, (s * d) \div g>>

Zero == <<0, 1>>
One == <<1, 1>>
Inf == <<1, 0>>
NaN == <<0, 0>>

RAdd(a, b) ==
    IF a = NaN \/ b = NaN THEN NaN
    ELSE IF a[2] = 0 /\ b[2] = 0 THEN (IF a = b THEN a ELSE NaN)
    ELSE IF a[2] = 0 THEN a
    ELSE IF b[2] = 0 THEN b
    ELSE Rat(a[1] * b[2] + b[1] * a[2], a[2] * b[2])

RMul(a, b) ==
    IF a = NaN \/ b = NaN THEN NaN
    ELSE IF a[2] = 0 \/ b[2] = 0
         THEN <<Sign(a[1]) * Sign(b[1]), 0>>
    ELSE Rat(a[1] * b[1], a[2] * b[2])

\* a < b; every comparison with NaN is false, as in IEEE arithmetic
RLt(a, b) ==
    /\ a # NaN
    /\ b # NaN
    /\ IF a[2] = 0 /\ b[2] = 0 THEN a[1] < b[1]
       ELSE IF a[2] = 0 THEN a[1] < 0
       ELSE IF b[2] = 0 THEN b[1] > 0
       ELSE a[1] * b[2] < b[1] * a[2]

RLe(a, b) == a # NaN /\ b # NaN /\ ~RLt(b, a)

\* ------------------------------------------------------ small helpers
Min(S) == CHOOSE x \in S : \A y \in S : x <= y

RECURSIVE SortSet(_)
SortSet(S) == IF S = {} THEN << >> ELSE <<Min(S)>> \o SortSet(S \ {Min(S)})

\* mutant: the 0 is never prepended
InsertZero_never(timeline) == timeline

\* numpy.insert(timeline, 0, 0.) when timeline[0] > 0
InsertZero(timeline) == IF timeline[1] > 0 THEN <<0>> \o timeline ELSE timeline

\* ------------------------------------------------------ quantile lookup
\* qth_survival_times for one column: survival is the column's values and
\* labels its index (the times of a DataFrame, 0..n-1 for a numpy array).
\* idxmax/argmax give the first position of the largest entry of the boolean
\* column, i.e. the first TRUE, or the first position when none is TRUE.
idxmax(sv_b, labels) ==
    IF \E k \in DOMAIN sv_b : sv_b[k]
    THEN labels[Min({k \in DOMAIN sv_b : sv_b[k]})]
    ELSE labels[1]

qth_survival_times(q, survival, labels) ==
    LET sv_b == [k \in DOMAIN survival |-> RLt(survival[k], q)]
    IN  IF ~sv_b[Len(survival)] THEN -1 ELSE idxmax(sv_b, labels)

median_survival_times(survival, labels) ==
    qth_survival_times(Rat(1, 2), survival, labels)

\* --------------------------------------------------- risk-set table
\* A subject is <<time, observed>>.  One row <<t, removed, observed, censored>>
\* per distinct time, ascending.
dataframe_from_events_censorship(subjects) ==
    LET ts == SortSet({subjects[i][1] : i \in DOMAIN subjects})
        At(t) == {i \in DOMAIN subjects : subjects[i][1] = t}
        Obs(t) == {i \in At(t) : subjects[i][2]}
    IN  [k \in DOMAIN ts |->
            <<ts[k], Cardinality(At(ts[k])), Cardinality(Obs(ts[k])),
              Cardinality(At(ts[k])) - Cardinality(Obs(ts[k]))>>]

RECURSIVE SumRemoved(_, _)
SumRemoved(rows, k) == IF k = 0 THEN 0 ELSE rows[k][2] + SumRemoved(rows, k - 1)

\* ------------------------------------- increment and variance functions
RECURSIVE SumInv(_, _)
\* sum of 1/(N-i) for i in range(d)
SumInv(N, d) == IF d <= 0 THEN Zero ELSE RAdd(SumInv(N, d - 1), Rat(1, N - (d - 1)))

RECURSIVE SumInvSq(_, _)
\* sum of 1/(N-i)**2 for i in range(d)
SumInvSq(N, d) ==
    IF d <= 0 THEN Zero
    ELSE RAdd(SumInvSq(N, d - 1), Rat(1, (N - (d - 1)) * (N - (d - 1))))

_variance_f_smooth(N, d) == IF N = d /\ d = 0 THEN Zero ELSE SumInvSq(N, d)

_variance_f_discrete(N, d) == IF N = d /\ d = 0 THEN Zero ELSE Rat((N - d) * d, N * N * N)

_additive_f_smooth(N, d) == IF N = d /\ d = 0 THEN Zero ELSE SumInv(N, d)

_additive_f_discrete(N, d) == IF N = d /\ d = 0 THEN Zero ELSE Rat(d, N)

\* numpy.log of a rational: NaN below 0, -inf at 0
Log(r) == IF r = NaN \/ RLt(r, Zero) THEN [ln |-> NaN] ELSE [ln |-> r]

\* numpy.exp of a value on the log scale
Exp(x) == x.ln

\* mutant: the sign of d/N is flipped
KaplanMeier_additive_f_plus(N, d) == IF N = d /\ d = 0 THEN Log(One) ELSE Log(Rat(N + d, N))

KaplanMeier_additive_f(N, d) == IF N = d /\ d = 0 THEN Log(One) ELSE Log(Rat(N - d, N))

KaplanMeier_variance_f(N, d) == IF N = d /\ d = 0 THEN Zero ELSE Rat(d, N * (N - d))

Kinds == {"na_smooth", "na_discrete", "km"}

additive_f(kind, N, d) ==
    CASE kind = "na_smooth" -> _additive_f_smooth(N, d)
      [] kind = "na_discrete" -> _additive_f_discrete(N, d)
      [] kind = "km" -> KaplanMeier_additive_f(N, d)

variance_f(kind, N, d) ==
    CASE kind = "na_smooth" -> _variance_f_smooth(N, d)
      [] kind = "na_discrete" -> _variance_f_discrete(N, d)
      [] kind = "km" -> KaplanMeier_variance_f(N, d)

\* the number 0 and + on the scale the accumulator v lives on
ZeroV(kind) == IF kind = "km" THEN Log(One) ELSE Zero

AddV(kind, a, b) == IF kind = "km" THEN [ln |-> RMul(a.ln, b.ln)] ELSE RAdd(a, b)

\* --------------------------------------------------- confidence bands
\* A bound is recorded by how it compares with the estimate it surrounds:
\* "below", "equal", "above", or "nan" when the arithmetic yields NaN.  The
\* z-score alpha2 = inv_normal_cdf((1+alpha)/2) is > 0 for alpha in (0,1), so
\* only signs and infinities decide the comparison.  A class is the sign of a
\* number with its finiteness: <<s, 1>> finite of sign s, <<s, 0>> infinite,
\* <<0, 0>> NaN.
Cls(x) == <<Sign(x[1]), IF x[2] = 0 THEN 0 ELSE 1>>

\* numpy.sqrt on a class
SqrtCls(c) == IF c[1] < 0 THEN NaN ELSE c

\* IEEE division of classes: 0/0 and inf/inf are NaN, x/0 is infinite
\* (the zero divisor is +0.0), x/inf is 0
DivCls(a, b) ==
    IF a = NaN \/ b = NaN THEN NaN
    ELSE IF a[2] = 0 /\ b[2] = 0 THEN NaN
    ELSE IF b = <<0, 1>> THEN <<a[1], 0>>
    ELSE IF b[2] = 0 THEN <<0, 1>>
    ELSE <<a[1] * b[1], a[2]>>

\* NelsonAalenFitter._bounds at one point: H * exp(s * alpha2 * sqrt(var) / H)
NelsonAalen_bound(H, var, s) ==
    LET e0 == DivCls(SqrtCls(Cls(var)), Cls(H))
        e == IF e0 = NaN THEN NaN ELSE <<s * e0[1], e0[2]>>
    IN  IF e = NaN \/ H = NaN THEN "nan"
        ELSE IF H = Zero THEN (IF e = Inf THEN "nan" ELSE "equal")
        ELSE IF e[1] > 0 THEN "above"
        ELSE IF e[1] < 0 THEN "below"
        ELSE "equal"

\* KaplanMeierFitter._bounds at one point, with v = log(S):
\* exp(-exp(log(-v) + s * alpha2 * sqrt(var) / v))
KaplanMeier_bound(S, var, s) ==
    LET v == IF S = NaN THEN NaN
             ELSE IF S = Zero THEN <<-1, 0>>
             ELSE IF S = One THEN <<0, 1>>
             ELSE IF RLt(S, One) THEN <<-1, 1>> ELSE <<1, 1>>
        \* log(-v): -inf at v = 0, +inf at v = -inf, NaN for v > 0
        A == IF v = NaN \/ v[1] > 0 THEN NaN
             ELSE IF v = <<0, 1>> THEN <<-1, 0>>
             ELSE IF v = <<-1, 0>> THEN <<1, 0>>
             ELSE <<0, 1>>
        B0 == DivCls(SqrtCls(Cls(var)), v)
        B == IF B0 = NaN THEN NaN ELSE <<s * B0[1], B0[2]>>
    IN  IF A = NaN \/ B = NaN THEN "nan"
        ELSE IF A[2] = 0 /\ B[2] = 0 /\ A # B THEN "nan"
        ELSE IF A = <<-1, 0>> \/ (A[2] # 0 /\ B = <<-1, 0>>)
             THEN (IF S = One THEN "equal" ELSE "above")   \* exp(-exp(-inf)) = 1
        ELSE IF A = <<1, 0>> \/ B = <<1, 0>>
             THEN (IF S = Zero THEN "equal" ELSE "below")  \* exp(-exp(+inf)) = 0
        \* finite: S ** exp(B) with 0 < S < 1
        ELSE IF B[1] < 0 THEN "above"
        ELSE IF B[1] > 0 THEN "below"
        ELSE "equal"

\* ------------------------------------------ Nelson-Aalen / Kaplan-Meier
VARIABLES kind, sample, timeline_arg, pc, event_times, timeline, index,
          est, var, N, t_0, v, v_sq, row, curve, median_, confidence_interval_

VARIABLES a_event_times, a_X, a_censorship, a_timeline_arg, fit_intercept,
          penalizer, a_pc, ix, X_, sorted_event_times, observed, a_timeline,
          cumulative_hazards_, hazards_, _variance, a_t_0, cum_v, a_v, V, a_i,
          confidence_intervals_

aalenVars == <<a_event_times, a_X, a_censorship, a_timeline_arg, fit_intercept,
               penalizer, a_pc, ix, X_, sorted_event_times, observed, a_timeline,
               cumulative_hazards_, hazards_, _variance, a_t_0, cum_v, a_v, V, a_i,
               confidence_intervals_>>

VARIABLES q_arg, survival_functions, q_v, q_pc

qVars == <<q_arg, survival_functions, q_v, q_pc>>

addVars == <<kind, sample, timeline_arg, pc, event_times, timeline, index,
             est, var, N, t_0, v, v_sq, row, curve, median_, confidence_interval_>>

Subjects == (0..MaxT) \X BOOLEAN

\* the aggregation does not depend on the order of the subjects: samples are
\* enumerated in one canonical order
Key(s) == 2 * s[1] + (IF s[2] THEN 0 ELSE 1)

Samples ==
    {s \in UNION {[1..k -> Subjects] : k \in 0..MaxN} :
        \A i \in 1..(Len(s) - 1) : Key(s[i]) <= Key(s[i + 1])}

\* timeline=None, or a strictly increasing array of at most MaxPts times
TimelineArgs ==
    {[given |-> FALSE, pts |-> << >>]} \cup
    {[given |-> TRUE, pts |-> SortSet(S)] :
        S \in {S \in SUBSET ((0 - 1)..MaxT) : Cardinality(S) \in 1..MaxPts}}

AddIdle ==
    /\ kind = "none" /\ sample = << >> /\ timeline_arg = [given |-> FALSE, pts |-> << >>]
    /\ pc = "idle" /\ event_times = << >> /\ timeline = << >> /\ index = << >>
    /\ est = << >> /\ var = << >> /\ N = 0 /\ t_0 = 0 /\ v = Zero /\ v_sq = Zero
    /\ row = 0 /\ curve = << >> /\ median_ = -1 /\ confidence_interval_ = << >>

AddInit ==
    /\ kind \in Kinds
    /\ sample \in Samples
    /\ timeline_arg \in TimelineArgs
    /\ pc = "start" /\ event_times = << >> /\ timeline = << >> /\ index = << >>
    /\ est = << >> /\ var = << >> /\ N = 0 /\ t_0 = 0 /\ v = Zero /\ v_sq = Zero
    /\ row = 0 /\ curve = << >> /\ median_ = -1 /\ confidence_interval_ = << >>

\* N -= missing
RiskSet(n, missing) == n - missing

\* the timeline points a row assigns: (t_0 <= timeline) * (timeline < t)
RowTimes(tl, t0, t) == {k \in DOMAIN tl : t0 <= tl[k] /\ tl[k] < t}

\* mutant: timeline > t
TailTimes_strict(tl, t) == {k \in DOMAIN tl : tl[k] > t}

\* the timeline points assigned after the loop: timeline >= t
TailTimes(tl, t) == {k \in DOMAIN tl : tl[k] >= t}

\* fit up to the loop of _additive_estimate.  timeline[0] of an empty
\* timeline raises IndexError.
fit ==
    /\ pc = "start"
    /\ LET rows == dataframe_from_events_censorship(sample)
           tl == IF timeline_arg.given THEN timeline_arg.pts
                 ELSE [k \in DOMAIN rows |-> rows[k][1]]
       IN  /\ event_times' = rows
           /\ timeline' = tl
           /\ IF Len(tl) = 0
              THEN /\ pc' = "error"
                   /\ UNCHANGED <<index, est, var, N, v>>
              ELSE /\ pc' = "loop"
                   /\ index' = InsertZero(tl)
                   /\ est' = [k \in DOMAIN InsertZero(tl) |-> ZeroV(kind)]
                   /\ var' = [k \in DOMAIN InsertZero(tl) |-> Zero]
                   /\ N' = SumRemoved(rows, Len(rows))
                   /\ v' = ZeroV(kind)
    /\ UNCHANGED <<kind, sample, timeline_arg, t_0, v_sq, row, curve, median_,
                   confidence_interval_>>
    /\ UNCHANGED <<aalenVars, qVars>>

\* one iteration of the loop of _additive_estimate
_additive_estimate_row ==
    /\ pc = "loop"
    /\ row < Len(event_times)
    /\ LET r == event_times[row + 1]
           t == r[1]
           observed_deaths == r[3]
           missing == r[4]
           times == RowTimes(index, t_0, t)
           N1 == RiskSet(N, missing)
       IN  /\ est' = [k \in DOMAIN est |-> IF k \in times THEN v ELSE est[k]]
           /\ var' = [k \in DOMAIN var |-> IF k \in times THEN v_sq ELSE var[k]]
           /\ v' = AddV(kind, v, additive_f(kind, N1, observed_deaths))
           /\ v_sq' = RAdd(v_sq, variance_f(kind, N1, observed_deaths))
           /\ N' = N1 - observed_deaths
           /\ t_0' = t
    /\ row' = row + 1
    /\ UNCHANGED <<kind, sample, timeline_arg, pc, event_times, timeline, index,
                   curve, median_, confidence_interval_>>
    /\ UNCHANGED <<aalenVars, qVars>>

\* the end of _additive_estimate and the rest of fit.  With no row the loop
\* variable t is unbound and line 193 raises.
fit_finish ==
    /\ pc = "loop"
    /\ row = Len(event_times)
    /\ IF Len(event_times) = 0
       THEN /\ pc' = "error"
            /\ UNCHANGED <<est, var, curve, median_, confidence_interval_>>
       ELSE LET tail == TailTimes(index, t_0)
                e == [k \in DOMAIN est |-> IF k \in tail THEN v ELSE est[k]]
                q == [k \in DOMAIN var |-> IF k \in tail THEN v_sq ELSE var[k]]
                c == IF kind = "km" THEN [k \in DOMAIN e |-> Exp(e[k])] ELSE e
                at(f, label) == f[CHOOSE k \in DOMAIN index : index[k] = label]
            IN  /\ est' = e
                /\ var' = q
                /\ curve' = c
                /\ median_' = IF kind = "km" THEN median_survival_times(c, index)
                              ELSE median_
                /\ confidence_interval_' =
                     [k \in DOMAIN timeline |->
                        IF kind = "km"
                        THEN [upper |-> KaplanMeier_bound(at(c, timeline[k]), at(q, timeline[k]), 1),
                              lower |-> KaplanMeier_bound(at(c, timeline[k]), at(q, timeline[k]), -1)]
                        ELSE [upper |-> NelsonAalen_bound(at(c, timeline[k]), at(q, timeline[k]), 1),
                              lower |-> NelsonAalen_bound(at(c, timeline[k]), at(q, timeline[k]), -1)]]
                /\ pc' = "done"
    /\ UNCHANGED <<kind, sample, timeline_arg, event_times, timeline, index,
                   N, t_0, v, v_sq, row>>
    /\ UNCHANGED <<aalenVars, qVars>>

\* ------------------------------------------------ Aalen additive model
\* The model fits one coefficient: the baseline alone (X of shape (n,0) with
\* fit_intercept=True) or one covariate with fit_intercept=False.  X^T X -
\* penalizer is then a 1x1 matrix, inv raises LinAlgError exactly when it is 0,
\* and V = inv(...) X^T is the row X_/(sum of squares - penalizer).
\* Positions are 1-based: i counts the completed iterations, the iteration in
\* progress is i + 1.
Unbound == << >>

CovariateValues == 0..2

Penalizers == {0, 1}

AalenTimelineArgs ==
    {[given |-> FALSE, pts |-> << >>]} \cup
    {[given |-> TRUE, pts |-> SortSet(S)] :
        S \in {S \in SUBSET (0..(MaxTime + 1)) : Cardinality(S) \in 1..MaxPts}}

AalenIdle ==
    /\ a_event_times = << >> /\ a_X = << >>
    /\ a_censorship = [given |-> FALSE, flags |-> << >>]
    /\ a_timeline_arg = [given |-> FALSE, pts |-> << >>]
    /\ fit_intercept = TRUE /\ penalizer = 0 /\ a_pc = "idle"
    /\ ix = << >> /\ X_ = << >> /\ sorted_event_times = << >> /\ observed = << >>
    /\ a_timeline = << >> /\ cumulative_hazards_ = << >> /\ hazards_ = << >>
    /\ _variance = << >> /\ a_t_0 = 0 /\ cum_v = Zero /\ a_v = Zero
    /\ V = Unbound /\ a_i = 0 /\ confidence_intervals_ = << >>

AalenInit ==
    /\ \E n \in 1..MaxSubjects :
          /\ a_event_times \in [1..n -> 0..MaxTime]
          /\ fit_intercept \in BOOLEAN
          /\ a_X \in IF fit_intercept THEN {[j \in 1..n |-> << >>]}
                     ELSE [1..n -> {<<x>> : x \in CovariateValues}]
          /\ a_censorship \in {[given |-> FALSE, flags |-> << >>]} \cup
                              {[given |-> TRUE, flags |-> f] : f \in [1..n -> BOOLEAN]}
    /\ a_timeline_arg \in AalenTimelineArgs
    /\ penalizer \in Penalizers
    /\ a_pc = "start"
    /\ ix = << >> /\ X_ = << >> /\ sorted_event_times = << >> /\ observed = << >>
    /\ a_timeline = << >> /\ cumulative_hazards_ = << >> /\ hazards_ = << >>
    /\ _variance = << >> /\ a_t_0 = 0 /\ cum_v = Zero /\ a_v = Zero
    /\ V = Unbound /\ a_i = 0 /\ confidence_intervals_ = << >>

\* event_times.argsort(): a permutation that sorts the times; the order of
\* tied times is left to the sort
Argsorts(times) ==
    {p \in [DOMAIN times -> DOMAIN times] :
        /\ \A a, b \in DOMAIN times : a # b => p[a] # p[b]
        /\ \A a \in 1..(Len(times) - 1) : times[p[a]] <= times[p[a + 1]]}

\* observed = censorship.reshape(n), or all ones when censorship is None
Observed(censorship, n) ==
    IF censorship.given THEN censorship.flags ELSE [j \in 1..n |-> TRUE]

\* the single column of the design matrix, rows taken in the order p
DesignColumn(X, p, intercept) ==
    [j \in DOMAIN p |-> IF intercept THEN 1 ELSE X[p[j]][1]]

RECURSIVE SumSq(_, _)
SumSq(x, k) == IF k = 0 THEN 0 ELSE x[k] * x[k] + SumSq(x, k - 1)

\* dot(X_.T, X_) - penalizer
Gram(x, lambda) == SumSq(x, Len(x)) - lambda

\* (t_0 < timeline) * (timeline <= time)
relevant_times(tl, t0, time) == {k \in DOMAIN tl : t0 < tl[k] /\ tl[k] <= time}

\* AalenAdditiveFitter._compute_confidence_intervals at one entry:
\* cumulative_hazards_ + s * alpha2 * sqrt(_variance)
Aalen_bound(variance, s) ==
    LET r == SqrtCls(Cls(variance))
    IN  IF r = NaN THEN "nan"
        ELSE IF r[1] = 0 THEN "equal"
        ELSE IF s > 0 THEN "above" ELSE "below"

\* fit up to the loop
AalenAdditiveFitter_fit ==
    /\ a_pc = "start"
    /\ \E p \in Argsorts(a_event_times) :
          LET n == Len(a_event_times)
              sorted == [j \in 1..n |-> a_event_times[p[j]]]
              tl0 == IF a_timeline_arg.given THEN a_timeline_arg.pts ELSE sorted
              tl == InsertZero(tl0)
          IN  /\ ix' = p
              /\ X_' = DesignColumn(a_X, p, fit_intercept)
              /\ sorted_event_times' = sorted
              /\ observed' = Observed(a_censorship, n)
              /\ a_timeline' = tl
              /\ cumulative_hazards_' = [k \in DOMAIN tl |-> Zero]
              /\ hazards_' = [j \in 1..n |-> Zero]
              /\ _variance' = [k \in DOMAIN tl |-> Zero]
              /\ a_t_0' = sorted[1]
    /\ cum_v' = Zero
    /\ a_v' = Zero
    /\ a_pc' = "loop"
    /\ UNCHANGED <<a_event_times, a_X, a_censorship, a_timeline_arg, fit_intercept,
                   penalizer, V, a_i, confidence_intervals_>>
    /\ UNCHANGED <<addVars, qVars>>

\* one iteration of the loop of fit.  In the LinAlgError handler V is the
\* matrix of the last iteration that inverted; when there is none the name is
\* unbound and line 273 raises out of fit.
AalenAdditiveFitter_fit_step ==
    /\ a_pc = "loop"
    /\ a_i < Len(sorted_event_times)
    /\ LET time == sorted_event_times[a_i + 1]
           rel == relevant_times(a_timeline, a_t_0, time)
           X1 == IF ~observed[a_i + 1] THEN [X_ EXCEPT ![a_i + 1] = 0] ELSE X_
           M == Gram(X1, penalizer)
       IN  IF M = 0
           THEN /\ cumulative_hazards_' =
                     [k \in DOMAIN a_timeline |->
                        IF k \in rel THEN cum_v ELSE cumulative_hazards_[k]]
                /\ hazards_' = [hazards_ EXCEPT ![a_i + 1] = a_v]
                /\ UNCHANGED <<V, a_v, cum_v>>
                /\ IF V = Unbound
                   THEN /\ a_pc' = "error"
                        /\ X_' = X1
                        /\ UNCHANGED <<_variance, a_t_0, a_i>>
                   ELSE /\ _variance' =
                             [k \in DOMAIN a_timeline |->
                                IF k \in rel THEN RMul(V[a_i + 1], V[a_i + 1])
                                ELSE _variance[k]]
                        /\ X_' = [X1 EXCEPT ![a_i + 1] = 0]
                        /\ a_t_0' = time
                        /\ a_i' = a_i + 1
                        /\ UNCHANGED a_pc
           ELSE LET W == [j \in DOMAIN X1 |-> Rat(X1[j], M)]
                    step == W[a_i + 1]
                    cum == RAdd(cum_v, step)
                IN  /\ V' = W
                    /\ a_v' = step
                    /\ cum_v' = cum
                    /\ cumulative_hazards_' =
                         [k \in DOMAIN a_timeline |->
                            IF k \in rel THEN RAdd(cumulative_hazards_[k], cum)
                            ELSE cumulative_hazards_[k]]
                    /\ hazards_' = [hazards_ EXCEPT ![a_i + 1] = RAdd(@, step)]
                    /\ _variance' =
                         [k \in DOMAIN a_timeline |->
                            IF k \in rel THEN RAdd(_variance[k], RMul(W[a_i + 1], W[a_i + 1]))
                            ELSE _variance[k]]
                    /\ a_t_0' = time
                    /\ X_' = [X1 EXCEPT ![a_i + 1] = 0]
                    /\ a_i' = a_i + 1
                    /\ UNCHANGED a_pc
    /\ UNCHANGED <<a_event_times, a_X, a_censorship, a_timeline_arg, fit_intercept,
                   penalizer, ix, sorted_event_times, observed, a_timeline,
                   confidence_intervals_>>
    /\ UNCHANGED <<addVars, qVars>>

\* the clean-up after the loop and _compute_confidence_intervals
AalenAdditiveFitter_fit_finish ==
    /\ a_pc = "loop"
    /\ a_i = Len(sorted_event_times)
    /\ LET time == sorted_event_times[a_i]
           rel == {k \in DOMAIN a_timeline : a_timeline[k] > time}
           ch == [k \in DOMAIN a_timeline |->
                    IF k \in rel THEN cum_v ELSE cumulative_hazards_[k]]
           vr == [k \in DOMAIN a_timeline |->
                    IF k \in rel THEN RMul(V[a_i], V[a_i]) ELSE _variance[k]]
       IN  /\ cumulative_hazards_' = ch
           /\ hazards_' = [hazards_ EXCEPT ![a_i] = a_v]
           /\ _variance' = vr
           /\ confidence_intervals_' =
                [k \in DOMAIN a_timeline |->
                    [upper |-> Aalen_bound(vr[k], 1), lower |-> Aalen_bound(vr[k], -1)]]
    /\ a_pc' = "done"
    /\ UNCHANGED <<a_event_times, a_X, a_censorship, a_timeline_arg, fit_intercept,
                   penalizer, ix, X_, sorted_event_times, observed, a_timeline,
                   a_t_0, cum_v, a_v, V, a_i>>
    /\ UNCHANGED <<addVars, qVars>>

\* ------------------------------------------------ lookup on any curve
Quantiles == {Rat(k, QDen) : k \in 0..QDen}

Curves == UNION {[1..n -> Quantiles] : n \in 1..MaxLen}

QIdle == q_arg = Zero /\ survival_functions = << >> /\ q_v = -1 /\ q_pc = "idle"

QInit == q_arg \in Quantiles /\ survival_functions \in Curves /\ q_v = -1 /\ q_pc = "start"

\* qth_survival_times on a one-column numpy array: the result is a position
\* 0..n-1, or -1
call_qth_survival_times ==
    /\ q_pc = "start"
    /\ q_v' = qth_survival_times(q_arg, survival_functions,
                                 [k \in DOMAIN survival_functions |-> k - 1])
    /\ q_pc' = "done"
    /\ UNCHANGED <<q_arg, survival_functions>>
    /\ UNCHANGED <<addVars, aalenVars>>

\* ------------------------------------------------------ specifications
vars == <<addVars, aalenVars, qVars>>

Init == AddInit /\ AalenIdle /\ QIdle

Next == fit \/ _additive_estimate_row \/ fit_finish

Spec == Init /\ [][Next]_vars

InitAalen == AddIdle /\ AalenInit /\ QIdle

NextAalen ==
    \/ AalenAdditiveFitter_fit
    \/ AalenAdditiveFitter_fit_step
    \/ AalenAdditiveFitter_fit_finish

SpecAalen == InitAalen /\ [][NextAalen]_vars

InitQ == AddIdle /\ AalenIdle /\ QInit

NextQ == call_qth_survival_times

SpecQ == InitQ /\ [][NextQ]_vars

\* ------------------------------------------------------------- claims
\* N_t of row k: (total of removed) - (removed of the rows before k) - missing_k
RiskSetAt(rows, k) == SumRemoved(rows, Len(rows)) - SumRemoved(rows, k - 1) - rows[k][4]

RECURSIVE SumF(_, _, _, _)
\* sum over the rows 1..k with t <= tau of f(N_t, d_t)
SumF(kd, rows, tau, k) ==
    IF k = 0 THEN ZeroV(kd)
    ELSE IF rows[k][1] <= tau
         THEN AddV(kd, SumF(kd, rows, tau, k - 1),
                   additive_f(kd, RiskSetAt(rows, k), rows[k][3]))
         ELSE SumF(kd, rows, tau, k - 1)

RECURSIVE SumG(_, _, _, _)
\* sum over the rows 1..k with t <= tau of g(N_t, d_t)
SumG(kd, rows, tau, k) ==
    IF k = 0 THEN Zero
    ELSE IF rows[k][1] <= tau
         THEN RAdd(SumG(kd, rows, tau, k - 1),
                   variance_f(kd, RiskSetAt(rows, k), rows[k][3]))
         ELSE SumG(kd, rows, tau, k - 1)

Initial(kd) == IF kd = "km" THEN One ELSE Zero

ExampleSample == <<<<1, TRUE>>, <<2, TRUE>>, <<2, FALSE>>, <<3, TRUE>>>>

\* C1: on times [1,2,2,3] with flags [T,T,F,T] and the default timeline,
\* Kaplan-Meier gives S = 1, 3/4, 1/2, 0 and discrete Nelson-Aalen gives
\* H = 0, 1/4, 7/12, 19/12 at times 0, 1, 2, 3 (the risk set at t = 2 is 3).
C1_WorkedExample ==
    (pc = "done" /\ sample = ExampleSample /\ ~timeline_arg.given) =>
        /\ index = <<0, 1, 2, 3>>
        /\ kind = "km" => curve = <<One, Rat(3, 4), Rat(1, 2), Zero>>
        /\ kind = "na_discrete" => curve = <<Zero, Rat(1, 4), Rat(7, 12), Rat(19, 12)>>

\* a valid sample is non-empty; the times of a timeline are >= 0
ValidInput == Len(sample) > 0 /\ (timeline_arg.given => timeline_arg.pts[1] >= 0)

\* C2 as stated: for every non-empty sample and every timeline the fitted
\* curve has a point at time 0 and holds its initial value there.
C2_StartsAtInitial_Original ==
    (pc = "done" /\ ValidInput) =>
        \E j \in DOMAIN index : index[j] = 0 /\ curve[j] = Initial(kind)

NoEventAtZero == \A i \in DOMAIN sample : ~(sample[i][1] = 0 /\ sample[i][2])

\* C2 amended: for every non-empty sample with no observed event at time 0
\* and every timeline whose first point is >= 0, the fitted curve has a point
\* at time 0 and holds its initial value there.
C2_StartsAtInitial ==
    (pc = "done" /\ ValidInput /\ NoEventAtZero) =>
        \E j \in DOMAIN index : index[j] = 0 /\ curve[j] = Initial(kind)

C2_Witness ==
    /\ pc = "done"
    /\ kind = "km"
    /\ timeline_arg.given /\ timeline_arg.pts[1] > 0
    /\ \E i \in DOMAIN sample : sample[i][1] = 0 /\ ~sample[i][2]
    /\ \E i \in DOMAIN sample : sample[i][2]
    /\ index[1] = 0 /\ curve[1] = One

\* C3: along the timeline Kaplan-Meier survival is non-increasing and the
\* Nelson-Aalen cumulative hazard (smooth and discrete) is non-decreasing; at
\* every row the risk set N used for the increment is >= d, the Kaplan-Meier
\* factor lies in [0,1] and the Nelson-Aalen increment is >= 0.
C3_Monotone ==
    /\ (pc = "loop" /\ row < Len(event_times)) =>
          LET d == event_times[row + 1][3]
              N1 == RiskSet(N, event_times[row + 1][4])
              inc == additive_f(kind, N1, d)
          IN  /\ N1 >= d
              /\ kind = "km" => RLe(Zero, Exp(inc)) /\ RLe(Exp(inc), One)
              /\ kind # "km" => RLe(Zero, inc)
    /\ pc = "done" =>
          \A j \in 1..(Len(curve) - 1) :
              IF kind = "km" THEN RLe(curve[j + 1], curve[j])
              ELSE RLe(curve[j], curve[j + 1])

C3_Witness ==
    /\ pc = "done"
    /\ kind = "km"
    /\ \E i, j \in DOMAIN sample : i # j /\ sample[i][1] = sample[j][1]
                                   /\ sample[i][2] /\ ~sample[j][2]
    /\ \E j \in 1..(Len(curve) - 1) : RLt(curve[j + 1], curve[j]) /\ RLt(Zero, curve[j + 1])

\* C7: fitting an empty or an all-censored sample raises no error and the
\* curve holds its initial value at every timeline point.
C7_Degenerate ==
    (\A i \in DOMAIN sample : ~sample[i][2]) =>
        /\ pc # "error"
        /\ pc = "done" => \A j \in DOMAIN curve : curve[j] = Initial(kind)

\* C8: after fit the band is defined and lower <= estimate <= upper at every
\* timeline point.
C8_BandOrdered ==
    (pc = "done" /\ ValidInput) =>
        \A k \in DOMAIN confidence_interval_ :
            /\ confidence_interval_[k].lower \in {"below", "equal"}
            /\ confidence_interval_[k].upper \in {"above", "equal"}

\* C9: for a non-empty table and a strictly increasing timeline, the estimate
\* at each point tau of the (0-prepended) timeline is the sum over the rows
\* with t <= tau of f(N_t, d_t), and the variance the sum of g(N_t, d_t).
C9_StepFunction ==
    pc = "done" =>
        /\ index = IF timeline[1] > 0 THEN <<0>> \o timeline ELSE timeline
        /\ \A j \in DOMAIN index :
              /\ est[j] = SumF(kind, event_times, index[j], Len(event_times))
              /\ var[j] = SumG(kind, event_times, index[j], Len(event_times))

C9_Witness ==
    /\ pc = "done"
    /\ kind = "na_discrete"
    /\ timeline_arg.given
    /\ Len(event_times) >= 2
    /\ index[1] = 0 /\ index[1] < event_times[1][1] /\ est[1] = Zero
    /\ \E j \in DOMAIN index :
          /\ event_times[1][1] < index[j] /\ index[j] < event_times[2][1]
          /\ RLt(Zero, est[j])
          /\ j + 1 \in DOMAIN index /\ RLt(est[j], est[j + 1])

\* C4: the lookup returns -1 exactly when the curve is nowhere < q, and
\* otherwise the first position at which it is < q, whatever the curve's shape.
C4_Lookup ==
    q_pc = "done" =>
        LET below == {k \in DOMAIN survival_functions : RLt(survival_functions[k], q_arg)}
        IN  /\ q_v = -1 <=> below = {}
            /\ below # {} => q_v = Min(below) - 1

AllObserved == \A j \in DOMAIN a_event_times : Observed(a_censorship, Len(a_event_times))[j]

\* C5: with the baseline alone, penalizer 0, no censoring and the default
\* timeline, the baseline cumulative hazard equals the discrete Nelson-Aalen
\* estimate of the same sample at every timeline point.
C5_BaselineIsNelsonAalen ==
    (a_pc = "done" /\ fit_intercept /\ penalizer = 0 /\ ~a_timeline_arg.given
        /\ AllObserved) =>
        LET rows == dataframe_from_events_censorship(
                        [j \in DOMAIN a_event_times |-> <<a_event_times[j], TRUE>>])
        IN  \A k \in DOMAIN a_timeline :
                cumulative_hazards_[k] = SumF("na_discrete", rows, a_timeline[k], Len(rows))

\* the iteration in progress finds X^T X - penalizer singular
SingularStep ==
    /\ a_pc = "loop"
    /\ a_i < Len(sorted_event_times)
    /\ Gram(IF ~observed[a_i + 1] THEN [X_ EXCEPT ![a_i + 1] = 0] ELSE X_, penalizer) = 0

\* C6: a singular step (the first included) does not abort the fit: cum_v is
\* unchanged, the timeline points of the step receive it, the rows written by
\* earlier steps are unchanged, row i of the design matrix is zeroed and the
\* recursion moves on to the next step.
C6_SingularStepRecovers ==
    [][SingularStep =>
          /\ a_pc' = "loop"
          /\ a_i' = a_i + 1
          /\ cum_v' = cum_v
          /\ X_'[a_i + 1] = 0
          /\ \A k \in DOMAIN a_timeline :
                cumulative_hazards_'[k] =
                    IF k \in relevant_times(a_timeline, a_t_0, sorted_event_times[a_i + 1])
                    THEN cum_v ELSE cumulative_hazards_[k]]_vars

NoTies == \A a, b \in DOMAIN a_event_times : a # b => a_event_times[a] # a_event_times[b]

\* C10: the censoring flag consulted at sorted step i is the flag of the
\* subject whose time is the i-th smallest, the subject of row i of the sorted
\* design matrix.
C10_FlagOfSortedSubject ==
    (a_pc = "loop" /\ a_i < Len(sorted_event_times) /\ NoTies) =>
        observed[a_i + 1] = Observed(a_censorship, Len(a_event_times))[ix[a_i + 1]]
====
